---- MODULE Spec2Model ----
(***************************************************************************)
(* djcelery_transactions: Celery tasks whose sending is delayed until the  *)
(* enclosing Django transaction is resolved.                               *)
(*                                                                         *)
(* Program state: the thread-local task queue (_thread_data), each         *)
(* thread's connection (in_atomic_block, as a nesting depth), the Celery   *)
(* configuration flag CELERY_ALWAYS_EAGER.  The transport (celery's own    *)
(* Task.apply_async) is observed through the log of the calls made to it.  *)
(* The transaction manager's notifications come from                      *)
(* djcelery_transactions.transaction_signals, which is modelled from the   *)
(* specification's section 4.4 and 6.                                      *)
(***************************************************************************)
EXTENDS Naturals, Sequences, FiniteSets, TLC

\* ---------------------------------------------------------------- bounds
MaxSubmissions == 2
MaxTransactions == 2
MaxDepth == 2

\* The threads of the process, each with its own connection.
Threads == {1, 2}

\* The (task, args, kwargs) a caller may pass to a submission.
Calls ==
    { [tsk |-> "T1", args |-> <<1>>, kwargs |-> "{}"],
      [tsk |-> "T2", args |-> <<2>>, kwargs |-> "{after_transaction: False}"] }

\* No call: the operation was not a submission.
NoCall == [tsk |-> "-", args |-> <<>>, kwargs |-> "{}"]

\* current_app.conf either has no CELERY_ALWAYS_EAGER (then getattr's default,
\* False, applies) or holds True, as the test settings set it.
EagerSettings == {"unset", "True"}

VARIABLES
    thread_data,    \* _thread_data.__dict__ of every thread
    atomic_depth,   \* per thread: nesting depth of the connection's atomic blocks
    always_eager,   \* current_app.conf.CELERY_ALWAYS_EAGER
    dispatched,     \* history: the submissions handed to celery's Task.apply_async so far
    count,          \* history: per thread, the submissions it has made
    outcome,        \* history: per thread, how each outermost transaction ended
    submitted,      \* history: per thread, its gated submissions inside its open transaction
    rolled_back,    \* history: the gated submissions made inside transactions rolled back
    last            \* the operation that led to this state: its name, thread, return
                    \* value (or raise) and the calls it made to Task.apply_async, in order

vars == <<thread_data, atomic_depth, always_eager, dispatched, count, outcome,
          submitted, rolled_back, last>>

\* ---------------------------------------------------------------- helpers

RECURSIVE SumOver(_, _)
SumOver(f, S) ==
    IF S = {} THEN 0
    ELSE LET x == CHOOSE y \in S : TRUE IN f[x] + SumOver(f, S \ {x})

\* The submissions made so far, by every thread.
Submissions == SumOver(count, Threads)

\* The outermost transactions begun so far, by every thread.
Transactions ==
    SumOver([t \in Threads |-> Len(outcome[t]) + IF atomic_depth[t] > 0 THEN 1 ELSE 0],
            Threads)

\* The outermost transaction thread t is in (0: none), numbered from 1.
txn(t) == IF atomic_depth[t] > 0 THEN Len(outcome[t]) + 1 ELSE 0

\* threading.local(): the attribute dictionary is the calling thread's own.
QueueKey(t) == t

\* _get_task_queue(): the calling thread's list, [] when there is none yet
\* (setdefault then stores it: see StoreQueue).
GetTaskQueueWithoutDefault(t) ==
    IF thread_data[QueueKey(t)].has_queue
    THEN thread_data[QueueKey(t)].task_queue
    ELSE <<[id |-> 0, tsk |-> "-", args |-> <<>>, kwargs |-> "{}",
            thread |-> t, txn |-> 0]>>
_get_task_queue(t) ==
    IF thread_data[QueueKey(t)].has_queue
    THEN thread_data[QueueKey(t)].task_queue
    ELSE <<>>

\* The list _get_task_queue returned, after the caller mutated it in place.
StoreQueue(t, q) ==
    [thread_data EXCEPT ![QueueKey(t)] = [has_queue |-> TRUE, task_queue |-> q]]

\* connection.in_atomic_block: true at every depth of nesting.
InOutermostBlockOnly(t) == atomic_depth[t] = 1
in_atomic_block(t) == atomic_depth[t] > 0

\* getattr(current_app.conf, 'CELERY_ALWAYS_EAGER', False)
AlwaysEager == always_eager = "True"

\* The condition of apply_async's if: delay the task.
ShouldDelayNever(t) == FALSE
ShouldDelayIgnoreEager(t) == in_atomic_block(t)
ShouldDelayOutside(t) == ~AlwaysEager
ShouldDelay(t) == in_atomic_block(t) /\ ~AlwaysEager

\* What the transport answers: an AsyncResult, or it raises.
None == [kind |-> "None", id |-> 0]
TransportResult(id, ok) ==
    [kind |-> IF ok THEN "AsyncResult" ELSE "raised", id |-> id]

\* One call of Task.apply_async (the transport): what it was given, and
\* whether it returned (ok) or raised.
Sent(inv, via, ok) ==
    [id |-> inv.id, tsk |-> inv.tsk, args |-> inv.args, kwargs |-> inv.kwargs,
     thread |-> inv.thread, txn |-> inv.txn, via |-> via, ok |-> ok]

\* The submissions a sequence of calls handed to the transport.
Handed(sent) ==
    { [thread |-> sent[i].thread, id |-> sent[i].id] : i \in 1..Len(sent) }

\* The tuple (self, args, kwargs) of a submission, tagged with the
\* submission's number, thread and transaction.
Entry(t, call) ==
    [id |-> count[t] + 1, tsk |-> call.tsk, args |-> call.args,
     kwargs |-> call.kwargs, thread |-> t, txn |-> txn(t)]

\* _send_tasks' loop: while queue: pop(0), original_apply_async.  The call
\* number `fail` raises (0: none does), which ends the loop and the handler.
RECURSIVE send_loop(_, _, _)
send_loop(queue, fail, sent) ==
    IF queue = <<>>
    THEN [queue |-> queue, sent |-> sent, raised |-> FALSE]
    ELSE LET inv == Head(queue)
             rest == Tail(queue)
         IN IF Len(sent) + 1 = fail
            THEN [queue |-> rest,
                  sent |-> Append(sent, Sent(inv, "_send_tasks", FALSE)),
                  raised |-> TRUE]
            ELSE send_loop(rest, fail,
                           Append(sent, Sent(inv, "_send_tasks", TRUE)))

\* _discard_tasks: queue[:] = []
DiscardKeepsQueue(queue) == queue
discarded(queue) == <<>>

\* The receivers connected to the transaction signals.
Receiver(signal) ==
    CASE signal = "post_commit" -> "_send_tasks"
      [] signal = "post_rollback" -> "_discard_tasks"
      [] OTHER -> "none"

\* The signal the transaction manager sends when the outermost block ends.
SignalOf(how) ==
    CASE how = "commit" -> "post_commit"
      [] how = "rollback" -> "post_rollback"
      [] OTHER -> "exit_no_changes"

\* The record of an operation.
Op(op, t, call, ret, sent) ==
    [op |-> op, thread |-> t, call |-> call, ret |-> ret, sent |-> sent]

\* ---------------------------------------------------------------- Init
Init ==
    /\ thread_data = [t \in Threads |-> [has_queue |-> FALSE, task_queue |-> <<>>]]
    /\ atomic_depth = [t \in Threads |-> 0]
    /\ always_eager \in EagerSettings
    /\ dispatched = {}
    /\ count = [t \in Threads |-> 0]
    /\ outcome = [t \in Threads |-> <<>>]
    /\ submitted = [t \in Threads |-> <<>>]
    /\ rolled_back = {}
    /\ last = Op("init", 1, NoCall, None, <<>>)

\* ---------------------------------------------------------------- actions

\* PostTransactionTask.original_apply_async: celery's own apply_async.
original_apply_async_gated(t, call, ok, op) ==
    IF in_atomic_block(t)
    THEN /\ thread_data' = StoreQueue(t, Append(_get_task_queue(t), Entry(t, call)))
         /\ last' = Op(op, t, call, None, <<>>)
         /\ UNCHANGED dispatched
    ELSE /\ dispatched' = dispatched \cup Handed(<<Sent(Entry(t, call), op, ok)>>)
         /\ last' = Op(op, t, call, TransportResult(count[t] + 1, ok),
                       <<Sent(Entry(t, call), op, ok)>>)
         /\ UNCHANGED thread_data
original_apply_async_swallows(t, call, ok, op) ==
    /\ dispatched' = dispatched \cup Handed(<<Sent(Entry(t, call), op, ok)>>)
    /\ last' = Op(op, t, call,
                  IF ok THEN TransportResult(count[t] + 1, ok) ELSE None,
                  <<Sent(Entry(t, call), op, ok)>>)
    /\ UNCHANGED thread_data
original_apply_async(t, call, ok, op) ==
    /\ dispatched' = dispatched \cup Handed(<<Sent(Entry(t, call), op, ok)>>)
    /\ last' = Op(op, t, call, TransportResult(count[t] + 1, ok),
                  <<Sent(Entry(t, call), op, ok)>>)
    /\ UNCHANGED thread_data

\* The bypass entry point, called by application code.
OriginalApplyAsync(t, call, ok) ==
    /\ count' = [count EXCEPT ![t] = @ + 1]
    /\ original_apply_async(t, call, ok, "original_apply_async")
    /\ UNCHANGED <<atomic_depth, always_eager, outcome, submitted, rolled_back>>

\* PostTransactionTask.apply_async: the gated entry point.
apply_async(t, call, ok) ==
    /\ count' = [count EXCEPT ![t] = @ + 1]
    /\ IF ShouldDelay(t)
       THEN /\ ok
            /\ thread_data' = StoreQueue(t, Append(_get_task_queue(t), Entry(t, call)))
            /\ last' = Op("apply_async", t, call, None, <<>>)
            /\ UNCHANGED dispatched
       ELSE original_apply_async(t, call, ok, "apply_async")
    /\ submitted' = [submitted EXCEPT
                        ![t] = IF in_atomic_block(t) THEN Append(@, Entry(t, call)) ELSE @]
    /\ UNCHANGED <<atomic_depth, always_eager, outcome, rolled_back>>

\* Entering an atomic block: the outermost one begins a transaction.
Enter(t) ==
    /\ atomic_depth[t] < MaxDepth
    /\ atomic_depth[t] = 0 => Transactions < MaxTransactions
    /\ atomic_depth' = [atomic_depth EXCEPT ![t] = @ + 1]
    /\ last' = Op("enter", t, NoCall, None, <<>>)
    /\ UNCHANGED <<thread_data, always_eager, dispatched, count, outcome, submitted,
                   rolled_back>>

\* _send_tasks(**kwargs), the receiver of post_commit.
_send_tasks(t, fail, op) ==
    LET r == send_loop(_get_task_queue(t), fail, <<>>)
    IN /\ fail \in 0..Len(_get_task_queue(t))
       /\ thread_data' = StoreQueue(t, r.queue)
       /\ dispatched' = dispatched \cup Handed(r.sent)
       /\ last' = Op(op, t, NoCall,
                     IF r.raised THEN TransportResult(r.sent[fail].id, FALSE) ELSE None,
                     r.sent)

\* _discard_tasks(**kwargs), the receiver of post_rollback.
_discard_tasks(t, op) ==
    /\ thread_data' = StoreQueue(t, discarded(_get_task_queue(t)))
    /\ UNCHANGED dispatched
    /\ last' = Op(op, t, NoCall, None, <<>>)

\* Leaving an inner atomic block (a savepoint): no signal is sent.
ExitInner(t, how) ==
    /\ atomic_depth[t] > 1
    /\ atomic_depth' = [atomic_depth EXCEPT ![t] = @ - 1]
    /\ last' = Op("savepoint_" \o how, t, NoCall, None, <<>>)
    /\ UNCHANGED <<thread_data, always_eager, dispatched, count, outcome, submitted,
                   rolled_back>>

\* Leaving the outermost atomic block: the transaction is resolved and its
\* signal is sent to the connected receiver, on the transaction's thread.
ExitOuter(t, how, fail) ==
    /\ atomic_depth[t] = 1
    /\ atomic_depth' = [atomic_depth EXCEPT ![t] = 0]
    /\ outcome' = [outcome EXCEPT ![t] = Append(@, how)]
    /\ submitted' = [submitted EXCEPT ![t] = <<>>]
    /\ rolled_back' = IF how = "rollback"
                      THEN rolled_back \cup
                           { [thread |-> t, id |-> submitted[t][i].id] :
                                i \in 1..Len(submitted[t]) }
                      ELSE rolled_back
    /\ CASE Receiver(SignalOf(how)) = "_send_tasks" -> _send_tasks(t, fail, how)
         [] Receiver(SignalOf(how)) = "_discard_tasks" ->
                fail = 0 /\ _discard_tasks(t, how)
         [] OTHER -> /\ fail = 0
                     /\ last' = Op(how, t, NoCall, None, <<>>)
                     /\ UNCHANGED <<thread_data, dispatched>>
    /\ UNCHANGED <<always_eager, count>>

Commit(t) == \E fail \in 0..MaxSubmissions : ExitOuter(t, "commit", fail)
Rollback(t) == ExitOuter(t, "rollback", 0)
ExitNoChanges(t) == ExitOuter(t, "no_changes", 0)
SavepointCommit(t) == ExitInner(t, "commit")
SavepointRollback(t) == ExitInner(t, "rollback")
ApplyAsync(t) ==
    /\ Submissions < MaxSubmissions
    /\ \E call \in Calls, ok \in BOOLEAN : apply_async(t, call, ok)
Bypass(t) ==
    /\ Submissions < MaxSubmissions
    /\ \E call \in Calls, ok \in BOOLEAN : OriginalApplyAsync(t, call, ok)

Next ==
    \E t \in Threads :
        \/ Enter(t)
        \/ ApplyAsync(t)
        \/ Bypass(t)
        \/ Commit(t)
        \/ Rollback(t)
        \/ ExitNoChanges(t)
        \/ SavepointCommit(t)
        \/ SavepointRollback(t)

Spec == Init /\ [][Next]_vars

\* Two threads, each in a transaction of its own that commits or is rolled
\* back, submitting through the gate only: the runs of Spec in which nothing
\* else happens, with room for two submissions by each thread.
IsolationSubmissions == 4
BeginTransaction(t) == atomic_depth[t] = 0 /\ Enter(t)
SubmitInTransaction(t) ==
    /\ Submissions < IsolationSubmissions
    /\ in_atomic_block(t)
    /\ \E call \in Calls : apply_async(t, call, TRUE)

NextIsolation ==
    \E t \in Threads :
        \/ BeginTransaction(t)
        \/ SubmitInTransaction(t)
        \/ Commit(t)
        \/ Rollback(t)

SpecIsolation == Init /\ [][NextIsolation]_vars

\* ---------------------------------------------------------------- claims

\* Thread t's own task queue, as its attribute dictionary holds it.
TaskQueue(t) == thread_data[t].task_queue

\* What identifies an invocation: who submitted it, as which submission, and
\* the task, args and kwargs captured then.
Invocation(e) ==
    [thread |-> e.thread, id |-> e.id, tsk |-> e.tsk, args |-> e.args,
     kwargs |-> e.kwargs]
Invocations(seq) == [i \in 1..Len(seq) |-> Invocation(seq[i])]

\* The outcomes after which the buffered tasks are to be sent.
CommitEquivalent == {"commit", "no_changes"}

\* Thread t's transaction number k has ended, in one of the ways `hows`.
Ended(t, k, hows) == k \in 1..Len(outcome[t]) /\ outcome[t][k] \in hows

\* The same, of the state this step leads to.
EndedNext(t, k, hows) == k \in 1..Len(outcome'[t]) /\ outcome'[t][k] \in hows

\* The submissions handed to the transport so far.
HandedOver == dispatched

\* This step is the submission last'.call by thread t, and it went straight
\* to the transport: one call, of what was submitted, its answer returned (or
\* its exception raised) to the caller, every task queue as it was.
SentImmediately(t) ==
    /\ Len(last'.sent) = 1
    /\ Invocation(last'.sent[1]) = Invocation(Entry(t, last'.call))
    /\ last'.ret = TransportResult(last'.sent[1].id, last'.sent[1].ok)
    /\ thread_data' = thread_data

\* This step drained thread t's whole queue to the transport, in order.
DrainedAndSent(t) ==
    /\ Invocations(last'.sent) = Invocations(TaskQueue(t))
    /\ TaskQueue(t)' = <<>>

\* C1: when a transaction commits with eager mode off, the post-commit
\* handler hands to the transport exactly the invocations the thread
\* submitted through the gate inside that transaction, each with the task,
\* args and kwargs captured at submission, in submission order.
C1_CommitSendsSubmittedInOrder ==
    [][\A t \in Threads :
          (last'.op = "commit" /\ last'.thread = t /\ ~AlwaysEager)
              => Invocations(last'.sent) = Invocations(submitted[t])]_vars

\* C2 as stated: a gated submission made inside a transaction that is rolled
\* back is never handed to the transport, its caller saw no error, and the
\* thread's queue is empty right after the rollback notification.
C2_RolledBackNeverSent ==
    /\ rolled_back \cap HandedOver = {}
    /\ (last.op = "apply_async" /\ in_atomic_block(last.thread))
          => last.ret.kind # "raised"
    /\ last.op = "rollback" => TaskQueue(last.thread) = <<>>

\* C2 amended: with eager mode off, a gated submission made inside a
\* transaction that is rolled back is never handed to the transport, its
\* caller saw no error, and the thread's queue is empty right after the
\* rollback notification.
C2_RolledBackNeverSentUnlessEager == ~AlwaysEager => C2_RolledBackNeverSent

\* C2's case: a rollback just ended a thread's first transaction, in which
\* the thread had made its two submissions through the gate.
C2_Witness ==
    /\ ~AlwaysEager
    /\ last.op = "rollback"
    /\ outcome[last.thread] = <<"rollback">>
    /\ { k \in rolled_back : k.thread = last.thread } =
          { [thread |-> last.thread, id |-> i] : i \in 1..2 }

\* C3: a gated submission made inside a transaction with eager mode off is
\* appended to the thread's queue, returns None and calls the transport not
\* at all; and whatever is sent from a queue is sent only once its
\* transaction has ended with a commit-equivalent notification.
C3_DelayedUntilCommit ==
    [][/\ \A t \in Threads :
            (last'.op = "apply_async" /\ last'.thread = t
                /\ in_atomic_block(t) /\ ~AlwaysEager)
                => /\ TaskQueue(t)' = Append(TaskQueue(t), Entry(t, last'.call))
                   /\ \A u \in Threads \ {t} : thread_data'[u] = thread_data[u]
                   /\ last'.ret = None
                   /\ last'.sent = <<>>
       /\ \A i \in 1..Len(last'.sent) :
            (\/ last'.sent[i].via = "_send_tasks"
             \/ (last'.sent[i].via = "apply_async" /\ last'.sent[i].txn > 0
                    /\ ~AlwaysEager))
                => EndedNext(last'.sent[i].thread, last'.sent[i].txn, CommitEquivalent)]_vars

\* C3's case: a second task was just buffered inside a transaction.
C3_Witness ==
    /\ last.op = "apply_async"
    /\ ~AlwaysEager
    /\ in_atomic_block(last.thread)
    /\ last.ret = None
    /\ Len(TaskQueue(last.thread)) = 2

\* C4: apply_async called inside a transaction with after_transaction=False
\* sends the task at once instead of buffering it.
C4_AfterTransactionFalseSendsNow ==
    [][\A t \in Threads :
          (last'.op = "apply_async" /\ last'.thread = t /\ in_atomic_block(t)
              /\ last'.call.kwargs = "{after_transaction: False}")
              => SentImmediately(t)]_vars

\* C5: original_apply_async called inside a transaction hands the task to
\* the transport at once, returns the transport's answer and leaves every
\* queue as it was; and no later step hands that submission over again.
C5_BypassSendsNow ==
    [][/\ \A t \in Threads :
            (last'.op = "original_apply_async" /\ last'.thread = t
                /\ in_atomic_block(t))
                => SentImmediately(t)
       /\ \A i \in 1..Len(last'.sent) :
            [thread |-> last'.sent[i].thread, id |-> last'.sent[i].id] \notin HandedOver]_vars

\* C5's case: a bypass submission just went out inside a transaction that
\* has a buffered task waiting.
C5_Witness ==
    /\ last.op = "original_apply_async"
    /\ in_atomic_block(last.thread)
    /\ ~AlwaysEager
    /\ Len(TaskQueue(last.thread)) = 1
    /\ Len(last.sent) = 1
    /\ last.ret.kind = "AsyncResult"

\* C6: apply_async called outside any transaction hands the task to the
\* transport at once, returns the transport's answer and leaves every queue
\* as it was, whatever CELERY_ALWAYS_EAGER is.
C6_NoTransactionSendsNow ==
    [][\A t \in Threads :
          (last'.op = "apply_async" /\ last'.thread = t /\ ~in_atomic_block(t))
              => SentImmediately(t)]_vars

\* C6's case: eager mode off, no transaction, and the task went out.
C6_Witness ==
    /\ last.op = "apply_async"
    /\ ~AlwaysEager
    /\ ~in_atomic_block(last.thread)
    /\ Len(last.sent) = 1
    /\ last.ret.kind = "AsyncResult"

\* C7: with CELERY_ALWAYS_EAGER set, every apply_async goes straight to the
\* transport, inside a transaction too; no queue ever holds anything, and
\* every submission made so far has been handed over, so that a rollback
\* finds nothing of it to discard.
C7_EagerSendsNow ==
    [][AlwaysEager =>
          /\ \A t \in Threads :
                (last'.op = "apply_async" /\ last'.thread = t) => SentImmediately(t)
          /\ \A t \in Threads : TaskQueue(t)' = <<>>
          /\ \A t \in Threads : \A i \in 1..count'[t] :
                [thread |-> t, id |-> i] \in HandedOver']_vars

\* C7's case: eager mode, a gated submission inside a transaction, which
\* was then rolled back.
C7_Witness ==
    /\ AlwaysEager
    /\ last.op = "rollback"
    /\ \E k \in rolled_back : k.thread = last.thread /\ k \in HandedOver

\* C8: two threads each submit M tasks inside a transaction of their own;
\* one commits, the other rolls back: exactly the M tasks of the committing
\* thread have been handed to the transport and none of the other's; and no
\* step of one thread changes another thread's queue.  (Under SpecIsolation
\* every submission is made through the gate inside a transaction, so a
\* thread whose only transaction has ended submitted count[t] tasks in it.)
C8_Isolation ==
    [][/\ \A a, b \in Threads :
            (/\ a # b
             /\ ~AlwaysEager
             /\ outcome'[a] = <<"commit">> /\ atomic_depth'[a] = 0
             /\ outcome'[b] = <<"rollback">> /\ atomic_depth'[b] = 0
             /\ count'[a] = count'[b])
                => HandedOver' = { [thread |-> a, id |-> i] : i \in 1..count'[a] }
       /\ \A u \in Threads \ {last'.thread} : thread_data'[u] = thread_data[u]]_vars

\* C9: a transport failure during the commit-time drain does not halt it:
\* every invocation of the queue is handed to the transport in that drain,
\* and none is left in the queue to be tried again.
C9_FailureDoesNotHaltDrain ==
    [][\A t \in Threads :
          (last'.op = "commit" /\ last'.thread = t) => DrainedAndSent(t)]_vars

\* C10: leaving a transaction block in which no changes were made sends the
\* buffered invocations like a commit does, and leaves the thread outside
\* any transaction with an empty queue.
C10_NoChangesExitSends ==
    [][\A t \in Threads :
          (last'.op = "no_changes" /\ last'.thread = t)
              => DrainedAndSent(t) /\ ~in_atomic_block(t)']_vars

C12_Conservation ==
    [][\A t \in Threads :
          (last'.thread = t /\ atomic_depth[t] = 1 /\ atomic_depth'[t] = 0)
              => /\ Len(TaskQueue(t)) =
                        Len(last'.sent) +
                        (IF last'.op = "rollback"
                         THEN Len(TaskQueue(t)) - Len(TaskQueue(t)')
                         ELSE 0)
                 /\ TaskQueue(t)' = <<>>
                 /\ Handed(last'.sent) \cap HandedOver = {}
                 /\ Cardinality(Handed(last'.sent)) = Len(last'.sent)]_vars

\* C13: a commit or rollback notification that finds its thread's queue
\* empty, or finds the thread without a queue as yet, hands nothing to the
\* transport, raises nothing and leaves the queue empty; so does a second
\* such notification after it.
C13_DrainOfEmptyQueue ==
    [][\A t \in Threads :
          (last'.op \in {"commit", "rollback"} /\ last'.thread = t
              /\ thread_data[t].task_queue = <<>>)
              => /\ last'.sent = <<>>
                 /\ dispatched' = dispatched
                 /\ last'.ret = None
                 /\ thread_data'[t].task_queue = <<>>
                 /\ \A u \in Threads \ {t} : thread_data'[u] = thread_data[u]]_vars

\* C13's case: a thread that never submitted anything was just notified of
\* a commit for the second time in a row.
C13_Witness ==
    /\ last.op = "commit"
    /\ count[last.thread] = 0
    /\ outcome[last.thread] = <<"commit", "commit">>
    /\ thread_data[last.thread] = [has_queue |-> TRUE, task_queue |-> <<>>]

\* The ways of ending a transaction that C14 speaks of.
Terminal == {"commit", "rollback"}

\* C14: a thread whose transactions so far all ended in a commit or a
\* rollback begins its next transaction with an empty queue, and the commit
\* of a transaction hands to the transport only what was submitted in that
\* transaction, whether or not an earlier drain met a transport failure.
C14_NewTransactionStartsEmpty ==
    [][\A t \in Threads :
          (\A k \in 1..Len(outcome[t]) : outcome[t][k] \in Terminal)
              => /\ (last'.op = "enter" /\ last'.thread = t /\ atomic_depth[t] = 0)
                    => TaskQueue(t)' = <<>>
                 /\ (last'.op = "commit" /\ last'.thread = t)
                    => \A i \in 1..Len(last'.sent) :
                          last'.sent[i].txn = Len(outcome'[t])]_vars

\* C15: when apply_async takes the immediate path (no transaction, or eager
\* mode) and the transport raises, the caller of apply_async gets that
\* exception, of that one call of the transport, and every queue is exactly
\* as it was before the call.
C15_ImmediateErrorPropagates ==
    [][\A t \in Threads :
          (last'.op = "apply_async" /\ last'.thread = t
              /\ (~in_atomic_block(t) \/ AlwaysEager)
              /\ \E i \in 1..Len(last'.sent) : ~last'.sent[i].ok)
              => /\ Len(last'.sent) = 1
                 /\ Invocation(last'.sent[1]) = Invocation(Entry(t, last'.call))
                 /\ last'.ret = [kind |-> "raised", id |-> last'.sent[1].id]
                 /\ thread_data' = thread_data]_vars

\* C15's case: eager mode off, no transaction, a task waiting in the
\* thread's queue, and the transport raised to the caller of apply_async.
C15_Witness ==
    /\ last.op = "apply_async"
    /\ ~in_atomic_block(last.thread)
    /\ last.ret.kind = "raised"
    /\ ~AlwaysEager
    /\ Len(TaskQueue(last.thread)) = 1
    /\ Len(last.sent) = 1
    /\ ~last.sent[1].ok

====
